---- MODULE Spec2Model ----
(***************************************************************************)
(* A model of chess_moves.py: the move generator that lists, for the       *)
(* active player, every piece and the squares it can move to.              *)
(*                                                                         *)
(* Python values are modelled as follows.  A str is a TLA+ string; s[i]    *)
(* is Char(s, i) and "a in s" is Contains(a, s).  A list is a sequence;    *)
(* Python's l[i] is l[i + 1].  The module-level global `board` of the      *)
(* program is the variable board.                                          *)
(***************************************************************************)
EXTENDS Integers, Sequences, FiniteSets, TLC

VARIABLES
    stdin,            \* the nine input lines: eight board rows, then the color
    pc,               \* where the main program (or a single call) stands
    board,            \* the global board: 8 rows of 8 tokens
    color,            \* the global color read from input
    available_pieces, \* the Piece objects find_pieces returned
    touched,          \* every (column,row) with which board[row][column] was read
    shown,            \* the text labeled_board returned
    printed,          \* the report lines printed so far
    call,             \* arguments of a single function call under test
    ret               \* what that call returned

vars == <<stdin, pc, board, color, available_pieces, touched, shown, printed,
          call, ret>>

---------------------------------------------------------------------------
(* Python string and list primitives *)

\* s[i] for 0 <= i < len(s)
Char(s, i) == SubSeq(s, i + 1, i + 1)

\* a in s, for strings
Contains(a, s) ==
    \E i \in 1..(Len(s) - Len(a) + 1) : SubSeq(s, i, i + Len(a) - 1) = a

\* str.upper() of the first letters the piece names start with
UpperOf(ch) ==
    CASE ch = "p" -> "P" [] ch = "r" -> "R" [] ch = "n" -> "N"
      [] ch = "b" -> "B" [] ch = "q" -> "Q" [] ch = "k" -> "K"
      [] OTHER -> ch

\* str.title() of a single lower-case word
Title(s) == UpperOf(Char(s, 0)) \o SubSeq(s, 2, Len(s))

\* s.split(','): the pieces of s between commas
RECURSIVE SplitFrom(_, _, _)
SplitFrom(s, start, i) ==
    IF i > Len(s) THEN <<SubSeq(s, start, Len(s))>>
    ELSE IF SubSeq(s, i, i) = ","
         THEN <<SubSeq(s, start, i - 1)>> \o SplitFrom(s, i + 1, i + 1)
         ELSE SplitFrom(s, start, i + 1)

Split(s) == SplitFrom(s, 1, 1)

\* sep.join(list)
RECURSIVE Join(_, _)
Join(sep, list) ==
    IF list = <<>> THEN ""
    ELSE IF Len(list) = 1 THEN list[1]
    ELSE list[1] \o sep \o Join(sep, Tail(list))

\* range(8)
BoardSize == 8
Range8 == 0..(BoardSize - 1)

\* list indexing: a negative index counts from the end, anything else
\* outside the list raises IndexError
Indexable(i) == i >= -BoardSize /\ i < BoardSize
PyIndex(i) == IF i < 0 THEN i + BoardSize ELSE i

---------------------------------------------------------------------------
(* class Piece: the two lookup tables *)

piece_names == [p |-> "pawn", r |-> "rook", n |-> "knight",
                b |-> "bishop", q |-> "queen", k |-> "king"]

piece_colors == [w |-> "white", b |-> "black"]

---------------------------------------------------------------------------
(* readable_position *)

readable_position(column, row) ==
    Char("abcdefgh", PyIndex(column)) \o Char("87654321", PyIndex(row))

---------------------------------------------------------------------------
(* space_check: returns moves and stop; raised marks an IndexError *)

\* space_check as it would be if stop started False: only the board edge
\* and max_distance would end a walk
space_check_never_stops(moves, clr, column, row) ==
    IF ~(Indexable(row) /\ Indexable(column))
    THEN [moves |-> moves, stop |-> TRUE, raised |-> TRUE]
    ELSE
      LET occupant == board[PyIndex(row) + 1][PyIndex(column) + 1] IN
      IF Char(occupant, 0) = "x"
      THEN [moves |-> Append(moves, readable_position(column, row)),
            stop |-> FALSE, raised |-> FALSE]
      ELSE IF Char(occupant, 0) # Char(clr, 0)
      THEN [moves |-> Append(moves, readable_position(column, row)
                               \o " (Capture "
                               \o Title(piece_names[Char(occupant, 1)])
                               \o ")"),
            stop |-> FALSE, raised |-> FALSE]
      ELSE [moves |-> moves, stop |-> FALSE, raised |-> FALSE]

space_check(moves, clr, column, row) ==
    IF ~(Indexable(row) /\ Indexable(column))
    THEN [moves |-> moves, stop |-> TRUE, raised |-> TRUE]
    ELSE
      LET occupant == board[PyIndex(row) + 1][PyIndex(column) + 1] IN
      IF Char(occupant, 0) = "x"
      THEN [moves |-> Append(moves, readable_position(column, row)),
            stop |-> FALSE, raised |-> FALSE]
      ELSE IF Char(occupant, 0) # Char(clr, 0)
      THEN [moves |-> Append(moves, readable_position(column, row)
                               \o " (Capture "
                               \o Title(piece_names[Char(occupant, 1)])
                               \o ")"),
            stop |-> TRUE, raised |-> FALSE]
      ELSE [moves |-> moves, stop |-> TRUE, raised |-> FALSE]

---------------------------------------------------------------------------
(* walk: the while loop, one recursion per iteration.  The loop state w   *)
(* holds the locals of walk; w.touched lists the squares handed to         *)
(* space_check, that is, the squares at which the board is read.           *)

\* walk as it would be without the range test before space_check
RECURSIVE walk_loop_unchecked(_)
walk_loop_unchecked(w) ==
    IF ~(w.column \in Range8 /\ w.row \in Range8 /\ w.max_distance > 0)
       \/ w.raised
    THEN w
    ELSE
      LET column == w.column + w.steps[1]
          row == w.row + w.steps[2]
          max_distance == w.max_distance - 1
      IN
      IF w.stop = TRUE
      THEN [w EXCEPT !.column = column, !.row = row,
                     !.max_distance = max_distance]
      ELSE
        LET checked == space_check(w.moves, w.color, column, row) IN
        walk_loop_unchecked([w EXCEPT !.column = column, !.row = row,
                            !.max_distance = max_distance,
                            !.moves = checked.moves,
                            !.stop = checked.stop,
                            !.raised = checked.raised,
                            !.touched = Append(w.touched, <<column, row>>)])

RECURSIVE walk_loop(_)
walk_loop(w) ==
    IF ~(w.column \in Range8 /\ w.row \in Range8 /\ w.max_distance > 0)
       \/ w.raised
    THEN w
    ELSE
      LET column == w.column + w.steps[1]
          row == w.row + w.steps[2]
          max_distance == w.max_distance - 1
      IN
      IF column \notin Range8 \/ row \notin Range8 \/ w.stop = TRUE
      THEN [w EXCEPT !.column = column, !.row = row,
                     !.max_distance = max_distance]
      ELSE
        LET checked == space_check(w.moves, w.color, column, row) IN
        walk_loop([w EXCEPT !.column = column, !.row = row,
                            !.max_distance = max_distance,
                            !.moves = checked.moves,
                            !.stop = checked.stop,
                            !.raised = checked.raised,
                            !.touched = Append(w.touched, <<column, row>>)])

\* walk with its final locals
walk_run(piece, steps, max_distance) ==
    walk_loop([column |-> piece.column, row |-> piece.row,
               color |-> piece.color, steps |-> steps,
               max_distance |-> max_distance,
               moves |-> <<>>, stop |-> FALSE,
               touched |-> <<>>, raised |-> FALSE])

walk(piece, steps, max_distance) == walk_run(piece, steps, max_distance).moves

---------------------------------------------------------------------------
(* find_moves and the two special generators.  Each generator is a list   *)
(* of walk calls; walk_calls names them in the order the code makes them, *)
(* so that the squares a generator reads are those its walks read.         *)

cross_moves == <<"U", "R", "D", "L">>
diagonal_moves == <<"UR", "DR", "DL", "UL">>

move_changes == [U |-> <<0, -1>>, R |-> <<1, 0>>, D |-> <<0, 1>>, L |-> <<-1, 0>>,
                 UR |-> <<1, -1>>, DR |-> <<1, 1>>, DL |-> <<-1, 1>>, UL |-> <<-1, -1>>]

move_options == [rook |-> [paths |-> cross_moves, distance |-> 7],
                 bishop |-> [paths |-> diagonal_moves, distance |-> 7],
                 queen |-> [paths |-> cross_moves \o diagonal_moves, distance |-> 7],
                 king |-> [paths |-> cross_moves \o diagonal_moves, distance |-> 1]]

knight_options == << <<-1, -2>>, <<1, -2>>,
                     <<2, -1>>, <<2, 1>>,
                     <<1, 2>>, <<-1, 2>>,
                     <<-2, -1>>, <<-2, -1>> >>

\* moves += walk(piece, path, max_distance) for each path of a list
RECURSIVE walk_each(_, _, _)
walk_each(piece, paths, max_distance) ==
    IF paths = <<>> THEN <<>>
    ELSE walk(piece, Head(paths), max_distance)
           \o walk_each(piece, Tail(paths), max_distance)

knight_moves(piece) == walk_each(piece, knight_options, 1)

\* pawn_rules as it would be with the white branch's starting row copied
\* into the black branch
pawn_rules_copied_row(piece) ==
    IF piece.color = "white"
    THEN [basic_path |-> <<0, -1>>,
          capture_paths |-> << <<1, -1>>, <<-1, -1>> >>,
          promotion_row |-> "8",
          max_distance |-> IF piece.row = 6 THEN 2 ELSE 1]
    ELSE [basic_path |-> <<0, 1>>,
          capture_paths |-> << <<1, 1>>, <<-1, 1>> >>,
          promotion_row |-> "1",
          max_distance |-> IF piece.row = 6 THEN 2 ELSE 1]

\* the color-dependent locals of pawn_moves
pawn_rules(piece) ==
    IF piece.color = "white"
    THEN [basic_path |-> <<0, -1>>,
          capture_paths |-> << <<1, -1>>, <<-1, -1>> >>,
          promotion_row |-> "8",
          max_distance |-> IF piece.row = 6 THEN 2 ELSE 1]
    ELSE [basic_path |-> <<0, 1>>,
          capture_paths |-> << <<1, 1>>, <<-1, 1>> >>,
          promotion_row |-> "1",
          max_distance |-> IF piece.row = 1 THEN 2 ELSE 1]

\* pawn_forward as it would be without the 'Capture' not in move filter
pawn_forward_unfiltered(piece) ==
    LET rules == pawn_rules(piece) IN
    walk(piece, rules.basic_path, rules.max_distance)

\* [move for move in walk(piece, basic_path, max_distance) if 'Capture' not in move]
pawn_forward(piece) ==
    LET rules == pawn_rules(piece) IN
    SelectSeq(walk(piece, rules.basic_path, rules.max_distance),
              LAMBDA move : ~Contains("Capture", move))

\* pawn_captures as it would be without the 'Capture' in move filter
RECURSIVE pawn_captures_unfiltered(_, _)
pawn_captures_unfiltered(piece, paths) ==
    IF paths = <<>> THEN <<>>
    ELSE walk(piece, Head(paths), 1)
           \o pawn_captures_unfiltered(piece, Tail(paths))

\* for path in capture_paths: [move for move in walk(piece, path, 1) if 'Capture' in move]
RECURSIVE pawn_captures(_, _)
pawn_captures(piece, paths) ==
    IF paths = <<>> THEN <<>>
    ELSE SelectSeq(walk(piece, Head(paths), 1),
                   LAMBDA move : Contains("Capture", move))
           \o pawn_captures(piece, Tail(paths))

\* the promotion pass as it would be without moves[index] = space: the
\* loop variable is rebound and the list is left as it was
pawn_promote_rebinds(moves, promotion_row) == moves

\* the promotion pass over the finished list
pawn_promote(moves, promotion_row) ==
    [index \in 1..Len(moves) |->
        IF Contains(promotion_row, moves[index])
        THEN "Promote on " \o moves[index]
        ELSE moves[index]]

pawn_moves(piece) ==
    LET rules == pawn_rules(piece) IN
    pawn_promote(pawn_forward(piece) \o pawn_captures(piece, rules.capture_paths),
                 rules.promotion_row)

find_moves(piece) ==
    IF piece.name \in DOMAIN move_options
    THEN LET option == move_options[piece.name] IN
         walk_each(piece,
                   [i \in 1..Len(option.paths) |-> move_changes[option.paths[i]]],
                   option.distance)
    ELSE IF piece.name = "pawn"
    THEN pawn_moves(piece)
    ELSE knight_moves(piece)

\* the (steps, max_distance) of every walk call find_moves makes for piece
walk_calls(piece) ==
    IF piece.name \in DOMAIN move_options
    THEN LET option == move_options[piece.name] IN
         [i \in 1..Len(option.paths) |->
             <<move_changes[option.paths[i]], option.distance>>]
    ELSE IF piece.name = "pawn"
    THEN LET rules == pawn_rules(piece) IN
         << <<rules.basic_path, rules.max_distance>> >>
           \o [i \in 1..Len(rules.capture_paths) |-> <<rules.capture_paths[i], 1>>]
    ELSE [i \in 1..Len(knight_options) |-> <<knight_options[i], 1>>]

\* the squares read, and whether an IndexError was raised, over those calls
RECURSIVE reads_of(_, _)
reads_of(piece, calls) ==
    IF calls = <<>> THEN [touched |-> <<>>, raised |-> FALSE]
    ELSE LET run == walk_run(piece, Head(calls)[1], Head(calls)[2])
             rest == reads_of(piece, Tail(calls))
         IN [touched |-> run.touched \o rest.touched,
             raised |-> run.raised \/ rest.raised]

---------------------------------------------------------------------------
(* class Piece *)

\* the object as find_moves sees it inside __init__, before moves is set
PieceSelf(clr, name, column, row) ==
    [color |-> piece_colors[clr], name |-> piece_names[name],
     column |-> column, row |-> row]

\* Piece(color, name, column, row)
Piece(clr, name, column, row) ==
    LET self == PieceSelf(clr, name, column, row) IN
    [color |-> self.color, name |-> self.name,
     column |-> self.column, row |-> self.row,
     moves |-> find_moves(self)]

\* Piece.__str__
PieceStr(piece) ==
    Title(piece.name) \o " (" \o readable_position(piece.column, piece.row) \o ")"

---------------------------------------------------------------------------
(* find_pieces *)

\* row_order as it would be without order.reverse()
row_order_not_reversed(clr) == [i \in 1..BoardSize |-> i - 1]

\* order = range(8), reversed for black
row_order(clr) ==
    IF clr = "b" THEN [i \in 1..BoardSize |-> BoardSize - i]
    ELSE [i \in 1..BoardSize |-> i - 1]

\* the two nested for loops, k counting the squares visited so far
RECURSIVE find_pieces_from(_, _)
find_pieces_from(clr, k) ==
    IF k >= BoardSize * BoardSize THEN <<>>
    ELSE LET row_index == row_order(clr)[(k \div BoardSize) + 1]
             column_index == k % BoardSize
             piece == board[row_index + 1][column_index + 1]
         IN (IF Char(piece, 0) = clr
             THEN <<Piece(clr, Char(piece, 1), column_index, row_index)>>
             ELSE <<>>)
            \o find_pieces_from(clr, k + 1)

find_pieces(clr) == find_pieces_from(clr, 0)

\* the squares the Piece constructors of find_pieces read through walk
RECURSIVE find_reads_from(_, _)
find_reads_from(clr, k) ==
    IF k >= BoardSize * BoardSize THEN <<>>
    ELSE LET row_index == row_order(clr)[(k \div BoardSize) + 1]
             column_index == k % BoardSize
             piece == board[row_index + 1][column_index + 1]
         IN (IF Char(piece, 0) = clr
             THEN LET self == PieceSelf(clr, Char(piece, 1), column_index, row_index)
                  IN reads_of(self, walk_calls(self)).touched
             ELSE <<>>)
            \o find_reads_from(clr, k + 1)

---------------------------------------------------------------------------
(* labeled_board *)

\* spaces: the board concatenated, each space padded to three characters
padded(space) == IF space = "x" THEN " x " ELSE " " \o space

labeled_row(b, r) ==
    Char("87654321", r) \o " "
      \o Join(" ", [c \in 1..BoardSize |-> padded(b[r + 1][c])])

labeled_board(b) ==
    "   a   b   c   d   e   f   g   h\n"
      \o Join("\n", [r \in 1..BoardSize |-> labeled_row(b, r - 1)])

---------------------------------------------------------------------------
(* Inputs.  A board for a single call holds the piece the call is about    *)
(* and at most MaxOthers further pieces.  The piece on a square has the    *)
(* kind KindAt gives that square, so that every kind occurs, and either    *)
(* color.                                                                  *)

MaxOthers == 2
MaxStride == 2
MaxSteps == 7

Colors == {"w", "b"}

KindAt(column, row) == Char("prnbqk", (column + 2 * row) % 6)

EmptyBoard == [r \in 1..BoardSize |-> [c \in 1..BoardSize |-> "x"]]

Put(b, column, row, token) == [b EXCEPT ![row + 1][column + 1] = token]

\* b with a piece of color tint[sq] on every square sq of the set squares
RECURSIVE PutAll(_, _, _)
PutAll(b, squares, tint) ==
    IF squares = {} THEN b
    ELSE LET sq == CHOOSE s \in squares : TRUE IN
         PutAll(Put(b, sq[1], sq[2], tint[sq] \o KindAt(sq[1], sq[2])),
                squares \ {sq}, tint)

OnBoard(column, row) == column \in Range8 /\ row \in Range8

\* the sets of at most MaxOthers squares among candidates
FewOf(candidates) == {S \in SUBSET candidates : Cardinality(S) <= MaxOthers}

\* the on-board squares at 1, 2, ... steps from (column,row)
RaySquares(column, row, steps) ==
    {sq \in Range8 \X Range8 :
        \E k \in 1..(BoardSize - 1) :
            sq = <<column + k * steps[1], row + k * steps[2]>>}

Directions ==
    {d \in (-MaxStride..MaxStride) \X (-MaxStride..MaxStride) : d # <<0, 0>>}

---------------------------------------------------------------------------
(* A single call of walk: any piece, any direction, any max_distance, on  *)
(* a board whose other pieces stand on the ray.                            *)

InitWalk ==
    \E column \in Range8, row \in Range8, clr \in Colors, steps \in Directions :
      \E others \in FewOf(RaySquares(column, row, steps)) :
        \E tint \in [others -> Colors] :
          /\ board = PutAll(Put(EmptyBoard, column, row,
                                clr \o KindAt(column, row)), others, tint)
          /\ call = [fn |-> "walk",
                     piece |-> PieceSelf(clr, KindAt(column, row), column, row),
                     steps |-> steps, max_distance |-> 0]
          /\ pc = "call"
          /\ ret = [moves |-> <<>>, touched |-> <<>>, raised |-> FALSE]
          /\ stdin = <<>> /\ color = clr /\ available_pieces = <<>>
          /\ touched = <<>> /\ shown = "" /\ printed = <<>>

CallWalk ==
    /\ pc = "call" /\ call.fn = "walk"
    /\ \E n \in 1..MaxSteps :
         /\ call' = [call EXCEPT !.max_distance = n]
         /\ ret' = walk_run(call.piece, call.steps, n)
    /\ pc' = "returned"
    /\ UNCHANGED <<stdin, board, color, available_pieces, touched, shown,
                   printed>>

NextWalk == CallWalk

SpecWalk == InitWalk /\ [][NextWalk]_vars

---------------------------------------------------------------------------
(* A single call of knight_moves: a knight of either color on any square, *)
(* the other pieces on the squares a knight's jump away or next to it.     *)

Abs(i) == IF i < 0 THEN -i ELSE i

KnightNear(column, row) ==
    {sq \in Range8 \X Range8 :
        /\ Abs(sq[1] - column) <= 2 /\ Abs(sq[2] - row) <= 2
        /\ Abs(sq[1] - column) + Abs(sq[2] - row) \in {1, 3}}

InitKnight ==
    \E column \in Range8, row \in Range8, clr \in Colors :
      \E others \in FewOf(KnightNear(column, row)) :
        \E tint \in [others -> Colors] :
          /\ board = PutAll(Put(EmptyBoard, column, row, clr \o "n"), others, tint)
          /\ call = [fn |-> "knight_moves",
                     piece |-> PieceSelf(clr, "n", column, row)]
          /\ pc = "call"
          /\ ret = [moves |-> <<>>]
          /\ stdin = <<>> /\ color = clr /\ available_pieces = <<>>
          /\ touched = <<>> /\ shown = "" /\ printed = <<>>

CallKnight ==
    /\ pc = "call" /\ call.fn = "knight_moves"
    /\ ret' = [moves |-> knight_moves(call.piece)]
    /\ pc' = "returned"
    /\ UNCHANGED <<stdin, board, color, available_pieces, touched, shown,
                   printed, call>>

NextKnight == CallKnight

SpecKnight == InitKnight /\ [][NextKnight]_vars

---------------------------------------------------------------------------
(* A single call of pawn_moves: a pawn of either color on any square, the *)
(* other pieces within one column and two rows of it.                      *)

PawnNear(column, row) ==
    {sq \in Range8 \X Range8 :
        /\ Abs(sq[1] - column) <= 1 /\ Abs(sq[2] - row) <= 2
        /\ sq # <<column, row>>}

InitPawn ==
    \E column \in Range8, row \in Range8, clr \in Colors :
      \E others \in FewOf(PawnNear(column, row)) :
        \E tint \in [others -> Colors] :
          /\ board = PutAll(Put(EmptyBoard, column, row, clr \o "p"), others, tint)
          /\ call = [fn |-> "pawn_moves",
                     piece |-> PieceSelf(clr, "p", column, row)]
          /\ pc = "call"
          /\ ret = [moves |-> <<>>]
          /\ stdin = <<>> /\ color = clr /\ available_pieces = <<>>
          /\ touched = <<>> /\ shown = "" /\ printed = <<>>

CallPawn ==
    /\ pc = "call" /\ call.fn = "pawn_moves"
    /\ ret' = [moves |-> pawn_moves(call.piece)]
    /\ pc' = "returned"
    /\ UNCHANGED <<stdin, board, color, available_pieces, touched, shown,
                   printed, call>>

NextPawn == CallPawn

SpecPawn == InitPawn /\ [][NextPawn]_vars

---------------------------------------------------------------------------
(* The main program.  The input is eight board rows and a color line; a   *)
(* board has at most MaxFilledRows rows that are not empty, each one of    *)
(* the rows of the sample board or a mixed row.                            *)

MaxFilledRows == 2

EmptyRow == "x,x,x,x,x,x,x,x"

FilledRows == {"br,bn,bb,bq,bk,bb,bn,br",
               "bp,bp,bp,bp,bp,bp,bp,x",
               "wp,wp,wp,wp,wp,wp,wp,wp",
               "wr,wn,wb,wq,wk,wb,wn,wr",
               "x,wb,bn,x,wp,bq,x,bp"}

Inputs ==
    {[i \in 1..(BoardSize + 1) |->
         IF i = BoardSize + 1 THEN clr
         ELSE IF i \in DOMAIN rows THEN rows[i] ELSE EmptyRow] :
       rows \in UNION {[S -> FilledRows] :
                          S \in {T \in SUBSET (1..BoardSize) :
                                    Cardinality(T) <= MaxFilledRows}},
       clr \in Colors}

Init ==
    /\ stdin \in Inputs
    /\ pc = "read_board"
    /\ board = <<>> /\ color = "" /\ available_pieces = <<>>
    /\ touched = <<>> /\ shown = "" /\ printed = <<>>
    /\ call = [fn |-> "main"] /\ ret = [moves |-> <<>>]

\* board = [raw_input().split(',') for _ in range(8)]
ReadBoard ==
    /\ pc = "read_board"
    /\ board' = [r \in 1..BoardSize |-> Split(stdin[r])]
    /\ pc' = "read_color"
    /\ UNCHANGED <<stdin, color, available_pieces, touched, shown, printed, call, ret>>

\* color = raw_input()
ReadColor ==
    /\ pc = "read_color"
    /\ color' = stdin[BoardSize + 1]
    /\ pc' = "find_pieces"
    /\ UNCHANGED <<stdin, board, available_pieces, touched, shown, printed, call, ret>>

\* available_pieces = find_pieces(color)
FindPieces ==
    /\ pc = "find_pieces"
    /\ available_pieces' = find_pieces(color)
    /\ touched' = find_reads_from(color, 0)
    /\ pc' = "print_board"
    /\ UNCHANGED <<stdin, board, color, shown, printed, call, ret>>

\* print labeled_board(board)
PrintBoard ==
    /\ pc = "print_board"
    /\ shown' = labeled_board(board)
    /\ pc' = "print_moves"
    /\ UNCHANGED <<stdin, board, color, available_pieces, touched, printed, call, ret>>

\* for p in available_pieces: print '{}: {}'.format(p, ', '.join(p.moves))
PrintMoves ==
    /\ pc = "print_moves"
    /\ printed' = [i \in 1..Len(available_pieces) |->
                      PieceStr(available_pieces[i]) \o ": "
                        \o Join(", ", available_pieces[i].moves)]
    /\ pc' = "done"
    /\ UNCHANGED <<stdin, board, color, available_pieces, touched, shown, call, ret>>

Next ==
    \/ ReadBoard
    \/ ReadColor
    \/ FindPieces
    \/ PrintBoard
    \/ PrintMoves

Spec == Init /\ [][Next]_vars

---------------------------------------------------------------------------
(* The vocabulary of the properties: squares, occupants, and the Move     *)
(* (target column and row, captured kind, promotion flag) a printed move   *)
(* text stands for.                                                        *)

Files == <<"a", "b", "c", "d", "e", "f", "g", "h">>
Ranks == <<"8", "7", "6", "5", "4", "3", "2", "1">>
KindNames == [p |-> "Pawn", r |-> "Rook", n |-> "Knight",
              b |-> "Bishop", q |-> "Queen", k |-> "King"]

Occupant(column, row) == board[row + 1][column + 1]
IsEmpty(column, row) == Occupant(column, row) = "x"
\* occupied by a piece of the other color than the piece's
IsEnemy(piece, column, row) ==
    /\ ~IsEmpty(column, row)
    /\ piece_colors[SubSeq(Occupant(column, row), 1, 1)] # piece.color
IsFriend(piece, column, row) ==
    /\ ~IsEmpty(column, row)
    /\ piece_colors[SubSeq(Occupant(column, row), 1, 1)] = piece.color
OccupantKind(column, row) == KindNames[SubSeq(Occupant(column, row), 2, 2)]

PromotePrefix == "Promote on "
CapturePrefix == " (Capture "

IndexIn(seq, x) ==
    IF \E i \in DOMAIN seq : seq[i] = x
    THEN (CHOOSE i \in DOMAIN seq : seq[i] = x) - 1
    ELSE -1

\* the Move a move text stands for
MoveOf(text) ==
    LET promotion == /\ Len(text) > Len(PromotePrefix)
                     /\ SubSeq(text, 1, Len(PromotePrefix)) = PromotePrefix
        body == IF promotion
                THEN SubSeq(text, Len(PromotePrefix) + 1, Len(text))
                ELSE text
        captures == /\ Len(body) > 2 + Len(CapturePrefix)
                    /\ SubSeq(body, 3, 2 + Len(CapturePrefix)) = CapturePrefix
    IN [column |-> IndexIn(Files, SubSeq(body, 1, 1)),
        row |-> IndexIn(Ranks, SubSeq(body, 2, 2)),
        capture |-> IF captures
                    THEN SubSeq(body, 3 + Len(CapturePrefix), Len(body) - 1)
                    ELSE IF Len(body) = 2 THEN "" ELSE "?",
        promotion |-> promotion]

MovesOf(texts) == [i \in 1..Len(texts) |-> MoveOf(texts[i])]

\* a Move without and with a capture, not flagged as a promotion
Quiet(column, row) ==
    [column |-> column, row |-> row, capture |-> "", promotion |-> FALSE]
Capturing(column, row) ==
    [column |-> column, row |-> row, capture |-> OccupantKind(column, row),
     promotion |-> FALSE]

Returned(fn) == pc = "returned" /\ call.fn = fn

---------------------------------------------------------------------------
(* C1 *)

\* the square k steps from the piece of the walk call
RayAt(k) == <<call.piece.column + k * call.steps[1],
              call.piece.row + k * call.steps[2]>>

\* how many squares of the ray are on the board and within max_distance
RayReach ==
    Cardinality({k \in 1..call.max_distance :
                    \A j \in 1..k : OnBoard(RayAt(j)[1], RayAt(j)[2])})

\* the steps within reach at which the ray meets a piece
RayBlocks == {k \in 1..RayReach : ~IsEmpty(RayAt(k)[1], RayAt(k)[2])}

RayFirstBlock == CHOOSE k \in RayBlocks : \A j \in RayBlocks : k <= j

RayFree == IF RayBlocks = {} THEN RayReach ELSE RayFirstBlock - 1

WalkExpected ==
    [k \in 1..RayFree |-> Quiet(RayAt(k)[1], RayAt(k)[2])]
      \o (IF RayBlocks # {}
             /\ IsEnemy(call.piece, RayAt(RayFirstBlock)[1], RayAt(RayFirstBlock)[2])
          THEN <<Capturing(RayAt(RayFirstBlock)[1], RayAt(RayFirstBlock)[2])>>
          ELSE <<>>)

\* C1: walk returns the empty squares of the ray up to the first occupied
\* square or max_distance, nearest first, then a capture of the first
\* occupied square if it holds an opposing piece, and nothing beyond it.
C1_WalkExact ==
    Returned("walk") => MovesOf(ret.moves) = WalkExpected

\* a walk that passed empty squares, captured, and left a piece and
\* unused steps beyond the capture
C1_Witness ==
    /\ Returned("walk")
    /\ RayBlocks # {}
    /\ RayFirstBlock >= 2
    /\ Cardinality(RayBlocks) >= 2
    /\ Len(ret.moves) = RayFirstBlock
    /\ MoveOf(ret.moves[Len(ret.moves)]).capture # ""

---------------------------------------------------------------------------
(* C2, C3 *)

KnightOffsets ==
    {d \in {-2, -1, 1, 2} \X {-2, -1, 1, 2} : Abs(d[1]) + Abs(d[2]) = 3}

\* the on-board squares a knight's jump from the piece of the call
KnightSquares ==
    {sq \in Range8 \X Range8 :
        \E d \in KnightOffsets :
            sq = <<call.piece.column + d[1], call.piece.row + d[2]>>}

\* those a knight may move to: empty, or held by an opposing piece
KnightTargets == {sq \in KnightSquares : ~IsFriend(call.piece, sq[1], sq[2])}

MoveTo(sq) ==
    IF IsEmpty(sq[1], sq[2]) THEN Quiet(sq[1], sq[2]) ELSE Capturing(sq[1], sq[2])

\* C2: the knight's move list holds, exactly once each, every on-board
\* square at one of the eight L-shaped offsets that is empty or holds an
\* opposing piece, and nothing else.
C2_KnightAllEight ==
    Returned("knight_moves") =>
        LET ms == MovesOf(ret.moves) IN
        /\ \A sq \in KnightTargets :
              Cardinality({i \in DOMAIN ms : ms[i] = MoveTo(sq)}) = 1
        /\ \A i \in DOMAIN ms : \E sq \in KnightTargets : ms[i] = MoveTo(sq)

\* C3: with no friendly piece on a destination square, a knight has 2, 3,
\* 4, 6 or 8 moves.
C3_KnightMobility ==
    (Returned("knight_moves") /\ KnightTargets = KnightSquares) =>
        Len(ret.moves) \in {2, 3, 4, 6, 8}

---------------------------------------------------------------------------
(* C4, C5, C6 *)

Forward(piece) == IF piece.color = "white" THEN -1 ELSE 1
StartRow(piece) == IF piece.color = "white" THEN 6 ELSE 1
FarRow(piece) == IF piece.color = "white" THEN 0 ELSE 7

\* the returned moves that stay in the pawn's column, and those that leave it
ForwardMoves ==
    SelectSeq(MovesOf(ret.moves), LAMBDA m : m.column = call.piece.column)
DiagonalMoves ==
    SelectSeq(MovesOf(ret.moves), LAMBDA m : m.column # call.piece.column)

Targets(ms) == [i \in DOMAIN ms |-> <<ms[i].column, ms[i].row>>]

OneAhead == <<call.piece.column, call.piece.row + Forward(call.piece)>>
TwoAhead == <<call.piece.column, call.piece.row + 2 * Forward(call.piece)>>

ForwardExpected ==
    (IF OnBoard(OneAhead[1], OneAhead[2]) /\ IsEmpty(OneAhead[1], OneAhead[2])
     THEN <<OneAhead>> ELSE <<>>)
      \o (IF /\ call.piece.row = StartRow(call.piece)
             /\ IsEmpty(OneAhead[1], OneAhead[2])
             /\ IsEmpty(TwoAhead[1], TwoAhead[2])
          THEN <<TwoAhead>> ELSE <<>>)

\* C4: a pawn's forward moves are the square one step ahead iff it is on
\* the board and empty, and the square two steps ahead iff the pawn is on
\* its starting row and both squares are empty; none is a capture or
\* targets an occupied square.
C4_PawnForward ==
    Returned("pawn_moves") =>
        /\ Targets(ForwardMoves) = ForwardExpected
        /\ \A i \in DOMAIN ForwardMoves :
              /\ ForwardMoves[i].capture = ""
              /\ IsEmpty(ForwardMoves[i].column, ForwardMoves[i].row)

\* a pawn on its starting row that got both forward moves
C4_Witness ==
    /\ Returned("pawn_moves")
    /\ call.piece.row = StartRow(call.piece)
    /\ Len(ForwardMoves) = 2
    /\ \E sq \in PawnNear(call.piece.column, call.piece.row) :
          ~IsEmpty(sq[1], sq[2])

\* scenario 4: a black pawn on d7 (column 3, row 1), an enemy on d5
\* (column 3, row 3), d6 (column 3, row 2) empty
Scenario4 ==
    /\ Returned("pawn_moves")
    /\ call.piece.color = "black"
    /\ call.piece.column = 3 /\ call.piece.row = 1
    /\ IsEnemy(call.piece, 3, 3)
    /\ IsEmpty(3, 2)

\* C5 as stated: in scenario 4 the pawn gets no 2-step move and no forward
\* move at all.
C5_Original ==
    Scenario4 => ForwardMoves = <<>>

\* C5 as amended: in scenario 4 the pawn gets no 2-step move and exactly
\* one forward move, the single step onto the empty square at column 3,
\* row 2.
C5_Amended ==
    Scenario4 => ForwardMoves = <<Quiet(3, 2)>>

C5_Witness ==
    Scenario4 /\ Len(ret.moves) >= 1

\* the on-board squares one step forward-diagonal of the pawn
DiagonalSquares ==
    {sq \in Range8 \X Range8 :
        /\ sq[2] = call.piece.row + Forward(call.piece)
        /\ Abs(sq[1] - call.piece.column) = 1}

Unflagged(m) == [m EXCEPT !.promotion = FALSE]

\* C6: a pawn's diagonal moves are exactly the captures of the opposing
\* pieces on its two forward-diagonal squares, each naming the occupant's
\* kind; no diagonal move goes to an empty square or a friendly piece.
C6_PawnDiagonal ==
    Returned("pawn_moves") =>
        /\ {Unflagged(DiagonalMoves[i]) : i \in DOMAIN DiagonalMoves}
             = {Capturing(sq[1], sq[2]) :
                  sq \in {d \in DiagonalSquares : IsEnemy(call.piece, d[1], d[2])}}
        /\ \A i \in DOMAIN DiagonalMoves :
              /\ DiagonalMoves[i].capture # ""
              /\ IsEnemy(call.piece, DiagonalMoves[i].column, DiagonalMoves[i].row)

\* a pawn with an enemy on one forward diagonal and a friend on the other
C6_Witness ==
    /\ Returned("pawn_moves")
    /\ Len(DiagonalMoves) = 1
    /\ \E sq \in DiagonalSquares : IsFriend(call.piece, sq[1], sq[2])

---------------------------------------------------------------------------
(* C7, C8, C9: the main program *)

Generated == pc \in {"print_board", "print_moves", "done"}

\* C7: a move is flagged as a promotion iff the moving piece is a pawn and
\* the move's row is 0 for a white pawn, 7 for a black one; no move of
\* another piece is flagged.
C7_PromotionFlag ==
    \A i \in DOMAIN available_pieces :
        LET piece == available_pieces[i] IN
        \A j \in DOMAIN piece.moves :
            MoveOf(piece.moves[j]).promotion
              <=> (piece.name = "pawn" /\ MoveOf(piece.moves[j]).row = FarRow(piece))

\* a pawn with a flagged capture, and another piece that reaches the
\* pawn's far row unflagged
C7_Witness ==
    /\ \E i \in DOMAIN available_pieces :
          /\ available_pieces[i].name = "pawn"
          /\ \E j \in DOMAIN available_pieces[i].moves :
                LET m == MoveOf(available_pieces[i].moves[j]) IN
                m.promotion /\ m.capture # ""
    /\ \E i \in DOMAIN available_pieces :
          /\ available_pieces[i].name # "pawn"
          /\ \E j \in DOMAIN available_pieces[i].moves :
                MoveOf(available_pieces[i].moves[j]).row = FarRow(available_pieces[i])

ColorWords == [w |-> "white", b |-> "black"]
KindWords == [p |-> "pawn", r |-> "rook", n |-> "knight",
              b |-> "bishop", q |-> "queen", k |-> "king"]

\* the squares whose occupant has the color read from the input
Owned == {sq \in Range8 \X Range8 : SubSeq(Occupant(sq[1], sq[2]), 1, 1) = color}

\* piece i is listed before piece j: by row, downward from 7 for black and
\* upward from 0 for white, then by column upward
ListedBefore(a, b) ==
    \/ (color = "b" /\ a.row > b.row)
    \/ (color # "b" /\ a.row < b.row)
    \/ (a.row = b.row /\ a.column < b.column)

\* C8: find_pieces returns one Piece per square whose occupant has the
\* color, with the occupant's kind, column and row, none for the other
\* squares, by row from 7 down for black and from 0 up for white and by
\* column from 0 up within a row.
C8_CollectOrder ==
    Generated =>
        /\ Len(available_pieces) = Cardinality(Owned)
        /\ \A sq \in Owned : \E i \in DOMAIN available_pieces :
              /\ available_pieces[i].column = sq[1]
              /\ available_pieces[i].row = sq[2]
              /\ available_pieces[i].name
                   = KindWords[SubSeq(Occupant(sq[1], sq[2]), 2, 2)]
              /\ available_pieces[i].color = ColorWords[color]
        /\ \A i \in DOMAIN available_pieces :
              <<available_pieces[i].column, available_pieces[i].row>> \in Owned
        /\ \A i, j \in DOMAIN available_pieces :
              i < j => ListedBefore(available_pieces[i], available_pieces[j])

\* black to move, black pieces in two rows and two of them in one row,
\* white pieces on the board
C8_Witness ==
    /\ Generated /\ color = "b"
    /\ \E i, j \in DOMAIN available_pieces :
          available_pieces[i].row # available_pieces[j].row
    /\ \E i, j \in DOMAIN available_pieces :
          /\ available_pieces[i].row = available_pieces[j].row
          /\ available_pieces[i].column # available_pieces[j].column
    /\ \E sq \in Range8 \X Range8 : SubSeq(Occupant(sq[1], sq[2]), 1, 1) = "w"

\* C9: every square at which move generation reads the board, and every
\* move it emits, has column and row within 0..7.
C9_InRange ==
    /\ \A i \in DOMAIN touched : OnBoard(touched[i][1], touched[i][2])
    /\ \A i \in DOMAIN available_pieces :
          \A j \in DOMAIN available_pieces[i].moves :
              LET m == MoveOf(available_pieces[i].moves[j]) IN
              OnBoard(m.column, m.row)

\* pieces in two opposite corners were generated, one of them with moves
C9_Witness ==
    /\ Generated /\ touched # <<>>
    /\ \E i, j \in DOMAIN available_pieces :
          /\ available_pieces[i].column = 0 /\ available_pieces[i].row = 0
          /\ available_pieces[j].column = 7 /\ available_pieces[j].row = 7
          /\ available_pieces[j].moves # <<>>

====
